---- MODULE Spec2Model ----
(***************************************************************************)
(* bitview: run-time described bit fields.                                 *)
(*                                                                         *)
(* A Structure is an ordered list of Fields; a Value pairs a usize sample  *)
(* with a Structure and extracts named fields by shifting and masking.     *)
(*                                                                         *)
(* Number representation.                                                  *)
(*  - Sizes and bit offsets (FieldSize = usize) are integers modulo        *)
(*    2^WordBits, written as their signed residue: a small value v is the  *)
(*    integer v, and a value 2^WordBits - k that only a wrapped            *)
(*    subtraction produces is the integer -k.  Sums and differences of     *)
(*    residues are residues of the sums and differences, and overflow is   *)
(*    decided from the signs (AddOverflows, SubOverflows).                 *)
(*  - Sample words (Value.data, masks, extracted values) are the set of    *)
(*    the positions of their 1 bits, a subset of 0..WordBits-1.            *)
(*  - usize arithmetic panics on overflow when the crate is built with     *)
(*    overflow checks (debug profile) and wraps otherwise (release); the   *)
(*    variable overflow_checks is the profile of the build.                *)
(***************************************************************************)
EXTENDS Integers, Sequences, FiniteSets, TLC

WordBits == 64
MaxFields == 3
MaxNew == 2

VARIABLES
    fields,           \* Structure.fields, in declared order
    data,             \* Value.data
    overflow_checks,  \* the build panics on usize overflow (TRUE) or wraps
    last              \* the last call, the name it was given and its outcome

vars == <<fields, data, overflow_checks, last>>

---------------------------------------------------------------------------
(* Outcomes of a call: Option<T> results, a plain returned value, a panic. *)
Some(v) == [tag |-> "Some", val |-> v]
None == [tag |-> "None"]
Ok(v) == [tag |-> "Ok", val |-> v]
Panic == [tag |-> "Panic"]

IsSome(r) == r.tag = "Some"
IsNone(r) == r.tag = "None"
IsPanic(r) == r.tag = "Panic"

---------------------------------------------------------------------------
(* usize arithmetic on signed residues. *)
AddOverflows(a, b) ==
    IF a >= 0 /\ b >= 0 THEN FALSE
    ELSE IF a < 0 /\ b < 0 THEN TRUE
    ELSE a + b >= 0

SubOverflows(a, b) ==
    IF (a >= 0) = (b >= 0) THEN a < b
    ELSE a >= 0

usize_add(a, b) ==
    IF overflow_checks /\ AddOverflows(a, b) THEN Panic ELSE Ok(a + b)

usize_sub(a, b) ==
    IF overflow_checks /\ SubOverflows(a, b) THEN Panic ELSE Ok(a - b)

(* Words as sets of bit positions. *)
Bit == 0 .. (WordBits - 1)
AllOnes == Bit

(* self.data >> low *)
usize_shr(word, n) ==
    IF n < 0 \/ n >= WordBits
    THEN IF overflow_checks THEN Panic
         ELSE Ok({b - (n % WordBits) : b \in {c \in word : c >= n % WordBits}})
    ELSE Ok({b - n : b \in {c \in word : c >= n}})

(* shifted & mask *)
usize_and(x, y) == x \cap y

(* 2_usize.pow(e) *)
usize_pow2(e) ==
    IF e >= WordBits
    THEN IF overflow_checks THEN Panic ELSE Ok({})
    ELSE Ok({e})

(* word - 1 *)
usize_dec(word) ==
    IF word = {}
    THEN IF overflow_checks THEN Panic ELSE Ok(AllOnes)
    ELSE LET k == CHOOSE b \in word : \A c \in word : b <= c
         IN  Ok((word \ {k}) \cup {b \in Bit : b < k})

---------------------------------------------------------------------------
(* Field *)
NoName == "<reserved>"
NoMap == {}

Reserved(n) == [kind |-> "Reserved", name |-> NoName, n |-> n, map |-> NoMap]
Boolean(name) == [kind |-> "Boolean", name |-> name, n |-> 0, map |-> NoMap]
Integer(name, n) == [kind |-> "Integer", name |-> name, n |-> n, map |-> NoMap]
Enum(name, n, map) == [kind |-> "Enum", name |-> name, n |-> n, map |-> map]

(* Variant: every kind reads its stored width, a Boolean having none. *)
Field_size_stored_width(f) == f.n

Field_size(f) ==
    CASE f.kind = "Reserved" -> f.n
      [] f.kind = "Boolean" -> 1
      [] f.kind = "Integer" -> f.n
      [] f.kind = "Enum" -> f.n

get_name(f) ==
    IF f.kind = "Reserved" THEN None ELSE Some(f.name)

---------------------------------------------------------------------------
(* Structure *)
RECURSIVE size_fold(_, _, _)
size_fold(fs, i, acc) ==
    IF i > Len(fs) THEN Ok(acc)
    ELSE LET next == usize_add(acc, Field_size(fs[i]))
         IN  IF IsPanic(next) THEN Panic ELSE size_fold(fs, i + 1, next.val)

Structure_size(fs) == size_fold(fs, 1, 0)

(* Variant: the first named field is returned whatever name is asked for. *)
get_field_any_name(fs, field_name) ==
    IF \E i \in 1 .. Len(fs) : fs[i].kind # "Reserved"
    THEN Some(fs[CHOOSE i \in 1 .. Len(fs) :
                    /\ fs[i].kind # "Reserved"
                    /\ \A j \in 1 .. (i - 1) : fs[j].kind = "Reserved"])
    ELSE None

(* Variant: the last declared field of the name is returned. *)
get_field_last_match(fs, field_name) ==
    IF \E i \in 1 .. Len(fs) : fs[i].kind # "Reserved" /\ fs[i].name = field_name
    THEN Some(fs[CHOOSE i \in 1 .. Len(fs) :
                    /\ fs[i].kind # "Reserved" /\ fs[i].name = field_name
                    /\ \A j \in (i + 1) .. Len(fs) :
                          ~(fs[j].kind # "Reserved" /\ fs[j].name = field_name)])
    ELSE None

RECURSIVE get_field_scan(_, _, _)
get_field_scan(fs, field_name, i) ==
    IF i > Len(fs) THEN None
    ELSE LET name == get_name(fs[i])
         IN  IF IsSome(name) /\ name.val = field_name
             THEN Some(fs[i])
             ELSE get_field_scan(fs, field_name, i + 1)

get_field(fs, field_name) == get_field_scan(fs, field_name, 1)

(* Variant: high is computed as low + size, one bit too many. *)
RECURSIVE get_range_scan_wide(_, _, _, _)
get_range_scan_wide(fs, field_match, i, low) ==
    IF i > Len(fs) THEN None
    ELSE LET sum == usize_add(low, Field_size(fs[i]))
         IN  IF IsPanic(sum) THEN Panic
             ELSE IF fs[i] = field_match
                  THEN Some(<<sum.val, low>>)
                  ELSE get_range_scan_wide(fs, field_match, i + 1, sum.val)

RECURSIVE get_range_scan(_, _, _, _)
get_range_scan(fs, field_match, i, low) ==
    IF i > Len(fs) THEN None
    ELSE IF fs[i] = field_match
         THEN LET sum == usize_add(low, Field_size(fs[i]))
              IN  IF IsPanic(sum) THEN Panic
                  ELSE LET high == usize_sub(sum.val, 1)
                       IN  IF IsPanic(high) THEN Panic
                           ELSE Some(<<high.val, low>>)
         ELSE LET next == usize_add(low, Field_size(fs[i]))
              IN  IF IsPanic(next) THEN Panic
                  ELSE get_range_scan(fs, field_match, i + 1, next.val)

(* Variant: the scan runs from the last declared field to the first, so   *)
(* that the first declared field is the most significant one.             *)
RECURSIVE get_range_scan_rev(_, _, _, _)
get_range_scan_rev(fs, field_match, i, low) ==
    IF i < 1 THEN None
    ELSE IF fs[i] = field_match
         THEN Some(<<low + Field_size(fs[i]) - 1, low>>)
         ELSE get_range_scan_rev(fs, field_match, i - 1, low + Field_size(fs[i]))

get_range_msb_first(fs, field_name) ==
    LET found == get_field(fs, field_name)
    IN  IF IsSome(found) THEN get_range_scan_rev(fs, found.val, Len(fs), 0) ELSE None

get_range(fs, field_name) ==
    LET found == get_field(fs, field_name)
    IN  IF IsSome(found) THEN get_range_scan(fs, found.val, 1, 0) ELSE None

---------------------------------------------------------------------------
(* Value *)
(* bits as u32 keeps every width below 2^32, which all widths here are. *)
mask(bits) ==
    LET p == usize_pow2(bits)
    IN  IF IsPanic(p) THEN Panic ELSE usize_dec(p.val)

get_as_integer(fs, word, name) ==
    LET range == get_range(fs, name)
    IN  IF ~IsSome(range) THEN range
        ELSE LET high == range.val[1]
                 low == range.val[2]
                 diff == usize_sub(high, low)
             IN  IF IsPanic(diff) THEN Panic
                 ELSE LET width == usize_add(diff.val, 1)
                      IN  IF IsPanic(width) THEN Panic
                          ELSE LET shifted == usize_shr(word, low)
                               IN  IF IsPanic(shifted) THEN Panic
                                   ELSE LET m == mask(width.val)
                                        IN  IF IsPanic(m) THEN Panic
                                            ELSE Some(usize_and(shifted.val, m.val))

get_integer(fs, word, name) == get_as_integer(fs, word, name)

One == {0}

(* Variant: any non-zero value is true. *)
get_bool_nonzero(fs, word, name) ==
    LET raw == get_as_integer(fs, word, name)
    IN  IF IsSome(raw) THEN Some(raw.val # {}) ELSE raw

get_bool(fs, word, name) ==
    LET raw == get_as_integer(fs, word, name)
    IN  IF IsSome(raw) THEN Some(raw.val = One) ELSE raw

---------------------------------------------------------------------------
(* The inputs. *)
Names == {"active", "lifetime"}
UnknownName == "intm"
QueryNames == Names \cup {UnknownName}
Mapping == {<<0, "off">>, <<1, "on">>}

FieldDomain ==
    { Reserved(4), Reserved(63),
      Boolean("active"), Integer("active", 63),
      Integer("lifetime", 0), Integer("lifetime", 4),
      Enum("lifetime", 4, Mapping) }

(* 0xFFE5 *)
Sample == {0, 2} \cup (5 .. 15)
DataDomain == {AllOnes, Sample}

SeqsUpTo(S, n) == UNION {[1 .. k -> S] : k \in 0 .. n}

---------------------------------------------------------------------------
(* The calls.  A panic ends the program. *)
Call(op, name, res) == [op |-> op, name |-> name, res |-> res]

Running == ~IsPanic(last.res)

(* Value::new(data, Structure::new("reg", fields)) *)
Init ==
    /\ fields \in SeqsUpTo(FieldDomain, MaxNew)
    /\ data \in DataDomain
    /\ overflow_checks \in BOOLEAN
    /\ last = Call("new", NoName, None)

append(field) ==
    /\ Running
    /\ Len(fields) < MaxFields
    /\ fields' = Append(fields, field)
    /\ last' = Call("append", NoName, None)
    /\ UNCHANGED <<data, overflow_checks>>

Query(op, name, res) ==
    /\ Running
    /\ last' = Call(op, name, res)
    /\ UNCHANGED <<fields, data, overflow_checks>>

SizeCall == Query("size", NoName, Structure_size(fields))
GetFieldCall(name) == Query("get_field", name, get_field(fields, name))
GetRangeCall(name) == Query("get_range", name, get_range(fields, name))
GetIntegerCall(name) == Query("get_integer", name, get_integer(fields, data, name))
GetBoolCall(name) == Query("get_bool", name, get_bool(fields, data, name))

Next ==
    \/ \E f \in FieldDomain : append(f)
    \/ SizeCall
    \/ \E name \in QueryNames : GetFieldCall(name)
    \/ \E name \in QueryNames : GetRangeCall(name)
    \/ \E name \in QueryNames : GetIntegerCall(name)
    \/ \E name \in QueryNames : GetBoolCall(name)

Spec == Init /\ [][Next]_vars

---------------------------------------------------------------------------
(* Vocabulary of the properties, stated on the declared list of fields and *)
(* independent of the scans above.                                         *)
IsNamed(f) == f.kind # "Reserved"
HasName(f, n) == IsNamed(f) /\ f.name = n
Present(fs, n) == \E i \in 1 .. Len(fs) : HasName(fs[i], n)
FirstIndex(fs, n) ==
    CHOOSE i \in 1 .. Len(fs) :
        HasName(fs[i], n) /\ \A j \in 1 .. (i - 1) : ~HasName(fs[j], n)

DeclaredBits(f) == IF f.kind = "Boolean" THEN 1 ELSE f.n

RECURSIVE SumBits(_, _, _)
SumBits(fs, from, to) ==
    IF from > to THEN 0 ELSE DeclaredBits(fs[to]) + SumBits(fs, from, to - 1)

UniqueNames(fs) ==
    \A i, j \in 1 .. Len(fs) :
        (i # j /\ IsNamed(fs[i]) /\ IsNamed(fs[j])) => fs[i].name # fs[j].name

NamedWidthsPositive(fs) ==
    \A i \in 1 .. Len(fs) : IsNamed(fs[i]) => DeclaredBits(fs[i]) >= 1

WellFormed(fs) == UniqueNames(fs) /\ NamedWidthsPositive(fs)

Returned(r, v) == IsSome(r) /\ r.val = v
IsOk(r) == r.tag = "Ok"

(* The bits high..low of a word, as a word. *)
BitsOf(word, high, low) == {i \in 0 .. (high - low) : (low + i) \in word}
Ones(w) == 0 .. (w - 1)

Front(fs) == SubSeq(fs, 1, Len(fs) - 1)
Queries == {"get_field", "get_range", "get_integer", "get_bool"}

---------------------------------------------------------------------------
(* C1: in a structure with unique names and named widths >= 1, get_range   *)
(* of a present name returns (high, low) with low = the sum of the sizes   *)
(* of the fields declared AFTER the named field and high = low + size - 1. *)
C1_LowIsSumOfLaterFields ==
    (last.op = "get_range" /\ WellFormed(fields) /\ Present(fields, last.name)) =>
        LET i == FirstIndex(fields, last.name)
            low == SumBits(fields, i + 1, Len(fields))
        IN  Returned(last.res, <<low + DeclaredBits(fields[i]) - 1, low>>)

(* C2: after append(f) of a named field of width >= 1 whose name was not   *)
(* present, f is the least-significant field: its range is (size - 1, 0).  *)
C2_AppendedIsLeastSignificant ==
    (/\ last.op = "append"
     /\ IsNamed(fields[Len(fields)])
     /\ DeclaredBits(fields[Len(fields)]) >= 1
     /\ ~Present(Front(fields), fields[Len(fields)].name)) =>
        Returned(get_range(fields, fields[Len(fields)].name),
                 <<DeclaredBits(fields[Len(fields)]) - 1, 0>>)

C4_IntegerIsBitsHighToLow ==
    last.op = "get_integer" =>
        LET range == get_range(fields, last.name)
        IN  /\ IsNone(last.res) <=> IsNone(range)
            /\ (IsSome(range) /\ (range.val[1] - range.val[2] + 1) \in 1 .. 63) =>
                   Returned(last.res, BitsOf(data, range.val[1], range.val[2]))

(* C5: for a name that is the name of no field, get_field, get_range,      *)
(* get_integer and get_bool return None and do not panic, whatever the     *)
(* structure (empty, reserved, zero-width, duplicate names) and the data.  *)
C5_UnknownNameIsNone ==
    (last.op \in Queries /\ ~Present(fields, last.name)) => IsNone(last.res)

C5_Witness ==
    /\ last.op = "get_bool"
    /\ last.name = UnknownName
    /\ ~UniqueNames(fields)
    /\ \E i \in 1 .. Len(fields) : fields[i].kind = "Reserved"
    /\ \E i \in 1 .. Len(fields) : DeclaredBits(fields[i]) = 0
    /\ IsNone(last.res)

(* C6: with every bit of data set, get_integer of a present named field of *)
(* width w in 0..63, at any offset, returns 2^w - 1 (0 for w = 0) without  *)
(* panicking.                                                              *)
C6_AllOnesGivesFullMask ==
    (/\ last.op = "get_integer"
     /\ data = AllOnes
     /\ Present(fields, last.name)
     /\ DeclaredBits(fields[FirstIndex(fields, last.name)]) \in 0 .. 63) =>
        Returned(last.res, Ones(DeclaredBits(fields[FirstIndex(fields, last.name)])))

(* C7: get_bool(name) is Some(true) iff get_integer(name) is Some(1), is   *)
(* Some(false) for every other extracted value, and is None exactly when   *)
(* get_integer(name) is None.                                              *)
C7_BoolIsIntegerEqualsOne ==
    last.op = "get_bool" =>
        LET raw == get_integer(fields, data, last.name)
        IN  /\ IsNone(last.res) <=> IsNone(raw)
            /\ Returned(last.res, TRUE) <=> Returned(raw, One)
            /\ Returned(last.res, FALSE) <=> (IsSome(raw) /\ raw.val # One)

C7_Witness ==
    /\ last.op = "get_bool"
    /\ Returned(last.res, FALSE)
    /\ Cardinality(get_integer(fields, data, last.name).val) > 1

(* C8: size() is the sum of the sizes of the fields (1 for Boolean, the    *)
(* width otherwise), 0 for the empty structure, the same for every         *)
(* permutation of the fields, and grows by f.size() on append(f).          *)
C8_SizeIsSumOfFieldSizes ==
    /\ last.op = "size" =>
          /\ last.res = Ok(SumBits(fields, 1, Len(fields)))
          /\ fields = <<>> => last.res = Ok(0)
          /\ \A p \in Permutations(1 .. Len(fields)) :
                Structure_size([i \in 1 .. Len(fields) |-> fields[p[i]]]) = last.res
    /\ last.op = "append" =>
          /\ IsOk(Structure_size(fields))
          /\ Structure_size(fields).val =
                Structure_size(Front(fields)).val + DeclaredBits(fields[Len(fields)])

C8_Witness ==
    /\ last.op = "size"
    /\ fields = <<Boolean("active"), Reserved(4), Integer("lifetime", 4)>>
    /\ last.res = Ok(9)

====
